---- MODULE Spec2Model ----
(***************************************************************************)
(* OperaWebDriverInstaller (src/opera.js): the five methods of the class,  *)
(* modelled call by call.  A JavaScript string that the code takes apart   *)
(* (command output, release tag, output directory) is a sequence of        *)
(* one-character strings; a string the code only assembles (URL, entry     *)
(* name, path) is a TLA+ string built with \o.                             *)
(***************************************************************************)
EXTENDS Integers, Sequences, FiniteSets, TLC

VARIABLES
    platform,   \* os.platform() of the host, fixed for the run
    pc,         \* position of the call in progress
    call,       \* the method called, its arguments and locals
    log,        \* calls made to InstallerUtils so far, in order, with outcomes
    result      \* how the call ended: returned value or thrown error

vars == <<platform, pc, call, log, result>>

----------------------------------------------------------------------------
(* Bounds *)

MaxOutLen == 4      \* longest enumerated command output, in characters
MaxTagLen == 3      \* longest enumerated release tag / driverVersion
MaxDirLen == 2      \* longest enumerated outputDirectory

----------------------------------------------------------------------------
(* JavaScript values *)

Null == [t |-> "null"]
Undefined == [t |-> "undefined"]
StrV(s) == [t |-> "string", v |-> s]

\* JavaScript truthiness of null, undefined or a string: the code's
\* `!version`, `output ? :`, `a || b`, `if (version)`.
Truthy(x) == x.t = "string" /\ x.v # <<>>

NoResult == [kind |-> "none"]
Returned(x) == [kind |-> "return", value |-> x]
Thrown(e) == [kind |-> "throw", value |-> e]

NoCall == [method |-> "none"]

RECURSIVE Str(_)
\* The TLA+ string spelled by a sequence of characters.
Str(s) == IF s = <<>> THEN "" ELSE Head(s) \o Str(Tail(s))

\* All character sequences over `chars` of length lo..hi.
SeqsOver(chars, lo, hi) == UNION {[1..n -> chars] : n \in lo..hi}

----------------------------------------------------------------------------
(* String.prototype.trim and String.prototype.split(' ') *)

\* Whitespace that trim() strips; the model's outputs use space and newline.
WhiteSpace == {" ", "\n", "\t", "\r"}

RECURSIVE TrimStart(_)
TrimStart(s) ==
    IF s # <<>> /\ Head(s) \in WhiteSpace THEN TrimStart(Tail(s)) ELSE s

RECURSIVE TrimEnd(_)
TrimEnd(s) ==
    IF s # <<>> /\ s[Len(s)] \in WhiteSpace
    THEN TrimEnd(SubSeq(s, 1, Len(s) - 1))
    ELSE s

Trim(s) == TrimEnd(TrimStart(s))

RECURSIVE SplitOn(_, _)
\* s.split(c) for a one-character separator c: every occurrence of c ends
\* a field, so "a  b".split(' ') is ["a", "", "b"] and "".split(' ') is [""].
SplitOn(s, c) ==
    IF \A i \in 1..Len(s) : s[i] # c
    THEN <<s>>
    ELSE LET i == CHOOSE k \in 1..Len(s) :
                      s[k] = c /\ \A j \in 1..(k - 1) : s[j] # c
         IN  <<SubSeq(s, 1, i - 1)>> \o SplitOn(SubSeq(s, i + 1, Len(s)), c)

\* arr[k] of a JavaScript array of strings (k from 0): undefined past the end.
At(arr, k) == IF k + 1 <= Len(arr) THEN StrV(arr[k + 1]) ELSE Undefined

----------------------------------------------------------------------------
(* path.join *)

RECURSIVE NormalizeSegments(_, _, _)
\* Node's normalizeString over the segments of a path: "" and "." are
\* dropped, ".." removes the segment before it, and is kept only at the
\* front of a relative path.
NormalizeSegments(segs, acc, isAbsolute) ==
    IF segs = <<>> THEN acc
    ELSE LET s == Head(segs)
             next ==
                 IF s = "" \/ s = "." THEN acc
                 ELSE IF s = ".."
                      THEN IF acc # <<>> /\ acc[Len(acc)] # ".."
                           THEN SubSeq(acc, 1, Len(acc) - 1)
                           ELSE IF isAbsolute THEN acc ELSE Append(acc, "..")
                      ELSE Append(acc, s)
         IN  NormalizeSegments(Tail(segs), next, isAbsolute)

RECURSIVE JoinWith(_, _)
JoinWith(segs, sep) ==
    IF segs = <<>> THEN ""
    ELSE IF Len(segs) = 1 THEN segs[1]
    ELSE segs[1] \o sep \o JoinWith(Tail(segs), sep)

RECURSIVE StrEach(_)
StrEach(segs) ==
    IF segs = <<>> THEN <<>> ELSE <<Str(Head(segs))>> \o StrEach(Tail(segs))

\* path.join(dir, name) on host `os`, for a file name without separators:
\* the non-empty arguments are joined and the result normalized.  On win32
\* the separator written is the backslash, and "/" is read as one too.
PathJoin(os, dir, name) ==
    LET sep == IF os = "win32" THEN "\\" ELSE "/"
        isAbsolute == dir # <<>> /\ dir[1] = "/"
        segs == NormalizeSegments(
                    StrEach(SplitOn(dir, "/")) \o <<name>>, <<>>, isAbsolute)
    IN  (IF isAbsolute THEN sep ELSE "") \o JoinWith(segs, sep)

----------------------------------------------------------------------------
(* OperaWebDriverInstaller: the pure parts of each method *)

Supported == {"darwin", "linux", "win32"}

getDriverName == "operadriver"

UnsupportedPlatform(os) == "Unsupported platform: " \o os

\* The three `if (os.platform() === ...)` tests of
\* getInstalledBrowserVersion: the branch taken, or "throw".
BrowserVersionBranch(os) ==
    IF os = "darwin" THEN "darwin"
    ELSE IF os = "linux" THEN "linux"
    ELSE IF os = "win32" THEN "win32"
    ELSE "throw"

\* getInstalledBrowserVersion, darwin: the bundle names tried, in order.
MacAppNames == <<"Opera", "Opera Stable">>

\* getInstalledBrowserVersion, linux: the two commands tried, in order.
SnapCommand == <<"/snap/bin/opera", "--version">>
PathCommand == <<"opera", "--version">>

\* `if (!version)`: whether the PATH command is run after the Snap one.
LinuxNeedsFallback(version) == ~Truthy(version)

\* `version ? version.trim().split(' ')[0] : null`
BrowserVersionOf(version) ==
    IF Truthy(version) THEN At(SplitOn(Trim(version.v), " "), 0) ELSE Null

\* getInstalledBrowserVersion, win32: possiblePaths.
possiblePaths(user) ==
    << "C:\\Program Files\\Opera\\opera.exe",
       "C:\\Program Files (x86)\\Opera\\opera.exe",
       "C:\\Users\\" \o user \o "\\AppData\\Local\\Programs\\Opera\\opera.exe" >>

WinPathFallback == "opera.exe"

\* Faulty variant: the loop never returns early.
WinLoopNeverReturns(version) == FALSE

\* `if (version) { return version; }` inside the loop over possiblePaths.
WinLoopReturns(version) == Truthy(version)

\* `a || b` on darwin: the second name is probed only when the first is falsy.
MacFirstWins(version) == Truthy(version)

\* getInstalledDriverVersion: outputPath.
DriverOutputPath(os, outputDirectory) ==
    LET outputPath == PathJoin(os, outputDirectory, getDriverName)
    IN  IF os = "win32" THEN outputPath \o ".exe" ELSE outputPath

\* `output ? output.trim().split(' ')[1] : null`
DriverVersionOf(output) ==
    IF Truthy(output) THEN At(SplitOn(Trim(output.v), " "), 1) ELSE Null

GitHubRepo == "operasoftware/operachromiumdriver"

\* Faulty variant: the pattern /^v\./, which leaves "v114..." as it is.
StripTagPrefixDotRequired(tag) ==
    IF Len(tag) >= 2 /\ tag[1] = "v" /\ tag[2] = "."
    THEN SubSeq(tag, 3, Len(tag))
    ELSE tag

\* Faulty variant: the pattern /^v/, which leaves the "." of "v.114...".
StripTagPrefixVOnly(tag) ==
    IF tag # <<>> /\ tag[1] = "v" THEN SubSeq(tag, 2, Len(tag)) ELSE tag

\* tag.replace(/^v\.?/, ''): one leading "v" and the "." right after it.
StripTagPrefix(tag) ==
    IF tag # <<>> /\ tag[1] = "v"
    THEN IF Len(tag) >= 2 /\ tag[2] = "."
         THEN SubSeq(tag, 3, Len(tag))
         ELSE SubSeq(tag, 2, Len(tag))
    ELSE tag

\* Faulty variant: a failed fetch is caught and null returned.
BestDriverVersionSwallowsFailure(fetched) ==
    IF fetched.kind = "throw"
    THEN Returned(Null)
    ELSE Returned(StrV(StripTagPrefix(fetched.value.v)))

\* getBestDriverVersion: the awaited fetch either throws, and the error
\* leaves the method, or gives the tag, which is returned stripped.
BestDriverVersionResult(fetched) ==
    IF fetched.kind = "throw"
    THEN fetched
    ELSE Returned(StrV(StripTagPrefix(fetched.value.v)))

NoPlatformTag == "<throw>"

\* Faulty variant: the chain ends in a default instead of the throw.
InstallPlatformTagDefaultsToLinux(os) ==
    IF os = "darwin" THEN "mac64"
    ELSE IF os = "win32" THEN "win64"
    ELSE "linux64"

\* install: the if / else-if chain that sets `platform`, or throws.
InstallPlatformTag(os) ==
    IF os = "linux" THEN "linux64"
    ELSE IF os = "darwin" THEN "mac64"
    ELSE IF os = "win32" THEN "win64"
    ELSE NoPlatformTag

\* install: binaryName.
InstallBinaryName(os) ==
    IF os = "win32" THEN "operadriver" \o ".exe" ELSE "operadriver"

\* install: archiveUrl.
ArchiveUrl(driverVersion, platformTag) ==
    "https://github.com/operasoftware/operachromiumdriver/releases/download/"
        \o "v." \o Str(driverVersion) \o "/operadriver_" \o platformTag \o ".zip"

\* Faulty variant: the binary is looked up at the root of the archive.
NameInArchiveAtRoot(platformTag, binaryName) == binaryName

\* install: nameInArchive.
NameInArchive(platformTag, binaryName) ==
    "operadriver_" \o platformTag \o "/" \o binaryName

\* Faulty variant: the ".exe" of the output name is forgotten.
InstallOutputNameWithoutExe(os) == getDriverName

\* install: outputName.
InstallOutputName(os) ==
    IF os = "win32" THEN getDriverName \o ".exe" ELSE getDriverName

\* Faulty variant: the archive is declared a tarball.
InstallBinaryArgsAsTarball(os, driverVersion, outputDirectory) ==
    [ archiveUrl      |-> ArchiveUrl(driverVersion, InstallPlatformTag(os)),
      nameInArchive   |-> NameInArchive(InstallPlatformTag(os),
                                        InstallBinaryName(os)),
      outputName      |-> InstallOutputName(os),
      outputDirectory |-> outputDirectory,
      isZip           |-> FALSE ]

\* install: the argument list of InstallerUtils.installBinary.
InstallBinaryArgs(os, driverVersion, outputDirectory) ==
    [ archiveUrl      |-> ArchiveUrl(driverVersion, InstallPlatformTag(os)),
      nameInArchive   |-> NameInArchive(InstallPlatformTag(os),
                                        InstallBinaryName(os)),
      outputName      |-> InstallOutputName(os),
      outputDirectory |-> outputDirectory,
      isZip           |-> TRUE ]

----------------------------------------------------------------------------
(* InstallerUtils and the host: what the calls can answer *)

Platforms == Supported \cup {"freebsd", "aix"}

Users == {"ann", "bo"}

ExampleVersion ==
    <<"1","1","4",".","0",".","5","7","3","5",".","9","0">>

ExampleDriverOutput ==
    <<"o","p","e","r","a","d","r","i","v","e","r"," ">> \o ExampleVersion
        \o <<" ","(","a","b","c","d","1","2","3","4",")">>

OutChars == {"o", "1", " ", "\n"}

\* getCommandOutputOrNullIfMissing: raw standard output, or null.
CommandOutputs ==
    {Null} \cup {StrV(s) : s \in SeqsOver(OutChars, 0, MaxOutLen)}
           \cup {StrV(ExampleDriverOutput), StrV(ExampleVersion \o <<"\n">>)}

\* What the freshly installed driver may answer to --version.
AfterInstallOutputs == {Null, StrV(ExampleDriverOutput)}

\* getMacAppVersion, getWindowsExeVersion: a version, or null.
ProbedVersions == {Null, StrV(ExampleVersion), StrV(<<"9", "9">>)}

TagChars == {"v", ".", "1"}

ExampleTags ==
    { <<"v">> \o ExampleVersion, <<"v", ".">> \o ExampleVersion, ExampleVersion }

\* fetchLatestGitHubTag: the raw tag, never empty.
Tags == SeqsOver(TagChars, 1, MaxTagLen) \cup ExampleTags

FetchFailure == "RemoteResolutionFailure"

\* fetchLatestGitHubTag: a tag, or a failure that propagates.
FetchOutcomes == {Returned(StrV(t)) : t \in Tags} \cup {Thrown(FetchFailure)}

\* installBinary: on success the entry is written to outputDirectory joined
\* with outputName and that path is returned; any failure throws and writes
\* nothing.
InstallBinary(os, args, failure) ==
    IF failure = "none"
    THEN Returned(PathJoin(os, args.outputDirectory, args.outputName))
    ELSE Thrown(failure)

InstallFailures == {"none", "DownloadFailure", "ArchiveFormatOrEntryMissing"}

DirChars == {"/", "d", "."}

OutputDirectories == SeqsOver(DirChars, 0, MaxDirLen)

\* driverVersion as a caller may pass it to install.
DriverVersions == SeqsOver(TagChars, 0, MaxTagLen) \cup {ExampleVersion}

BrowserVersions == {Null, StrV(ExampleVersion)}

Probe(op, arg, out) == [op |-> op, arg |-> arg, out |-> out]

----------------------------------------------------------------------------
(* State machine *)

Init ==
    /\ platform \in Platforms
    /\ pc = "idle"
    /\ call = NoCall
    /\ log = <<>>
    /\ result = NoResult

Finish(r) ==
    /\ pc' = "done"
    /\ result' = r

\* getInstalledBrowserVersion on darwin: getMacAppVersion('Opera').
BrowserVersionMacFirst ==
    /\ pc = "idle"
    /\ BrowserVersionBranch(platform) = "darwin"
    /\ call' = [method |-> "getInstalledBrowserVersion"]
    /\ \E v \in ProbedVersions :
          /\ log' = <<Probe("getMacAppVersion", MacAppNames[1], v)>>
          /\ IF MacFirstWins(v)
             THEN Finish(Returned(v))
             ELSE pc' = "darwin2" /\ result' = NoResult
    /\ UNCHANGED platform

\* ... || getMacAppVersion('Opera Stable').
BrowserVersionMacSecond ==
    /\ pc = "darwin2"
    /\ \E v \in ProbedVersions :
          /\ log' = Append(log, Probe("getMacAppVersion", MacAppNames[2], v))
          /\ Finish(Returned(v))
    /\ UNCHANGED <<platform, call>>

\* getInstalledBrowserVersion on linux: the Snap command.
BrowserVersionLinuxSnap ==
    /\ pc = "idle"
    /\ BrowserVersionBranch(platform) = "linux"
    /\ call' = [method |-> "getInstalledBrowserVersion"]
    /\ \E out \in CommandOutputs :
          /\ log' = <<Probe("getCommandOutputOrNullIfMissing",
                            SnapCommand, out)>>
          /\ IF LinuxNeedsFallback(out)
             THEN pc' = "linuxPath" /\ result' = NoResult
             ELSE Finish(Returned(BrowserVersionOf(out)))
    /\ UNCHANGED platform

\* The fallback to PATH, then the return.
BrowserVersionLinuxPath ==
    /\ pc = "linuxPath"
    /\ \E out \in CommandOutputs :
          /\ log' = Append(log, Probe("getCommandOutputOrNullIfMissing",
                                      PathCommand, out))
          /\ Finish(Returned(BrowserVersionOf(out)))
    /\ UNCHANGED <<platform, call>>

\* One turn of the loop over possiblePaths.
WinLoopTurn(paths, v) ==
    LET i == Len(log) + 1
    IN  /\ log' = Append(log, Probe("getWindowsExeVersion", paths[i], v))
        /\ IF WinLoopReturns(v)
           THEN Finish(Returned(v))
           ELSE /\ pc' = IF i < Len(paths) THEN "winLoop" ELSE "winPath"
                /\ result' = NoResult

\* getInstalledBrowserVersion on win32: possiblePaths is built with the
\* user name read from the host, and the loop takes its first turn.
BrowserVersionWinFirst ==
    /\ pc = "idle"
    /\ BrowserVersionBranch(platform) = "win32"
    /\ \E user \in Users, v \in ProbedVersions :
          /\ call' = [method |-> "getInstalledBrowserVersion",
                      username |-> user,
                      possiblePaths |-> possiblePaths(user)]
          /\ WinLoopTurn(possiblePaths(user), v)
    /\ UNCHANGED platform

\* A later turn of the loop.
BrowserVersionWinLoop ==
    /\ pc = "winLoop"
    /\ \E v \in ProbedVersions : WinLoopTurn(call.possiblePaths, v)
    /\ UNCHANGED <<platform, call>>

\* After the loop: getWindowsExeVersion('opera.exe').
BrowserVersionWinPath ==
    /\ pc = "winPath"
    /\ \E v \in ProbedVersions :
          /\ log' = Append(log,
                       Probe("getWindowsExeVersion", WinPathFallback, v))
          /\ Finish(Returned(v))
    /\ UNCHANGED <<platform, call>>

\* getInstalledBrowserVersion on any other platform: the final throw.
BrowserVersionUnsupported ==
    /\ pc = "idle"
    /\ BrowserVersionBranch(platform) = "throw"
    /\ call' = [method |-> "getInstalledBrowserVersion"]
    /\ log' = <<>>
    /\ Finish(Thrown(UnsupportedPlatform(platform)))
    /\ UNCHANGED platform

\* getInstalledDriverVersion(outputDirectory).  `artifact` is the path the
\* preceding install wrote, or Null when the call does not follow one.
DriverVersionCall(outputDirectory, artifact, out) ==
    /\ call' = [method |-> "getInstalledDriverVersion",
                outputDirectory |-> outputDirectory,
                artifact |-> artifact]
    /\ log' = <<Probe("getCommandOutputOrNullIfMissing",
                      <<DriverOutputPath(platform, outputDirectory),
                        "--version">>, out)>>
    /\ Finish(Returned(DriverVersionOf(out)))
    /\ UNCHANGED platform

InstalledDriverVersion ==
    /\ pc = "idle"
    /\ \E d \in OutputDirectories, out \in CommandOutputs :
          DriverVersionCall(d, Null, out)

\* getInstalledDriverVersion on the directory of the install that has just
\* succeeded.
InstalledDriverVersionAfterInstall ==
    /\ pc = "done"
    /\ call.method = "install"
    /\ result.kind = "return"
    /\ \E out \in AfterInstallOutputs :
          DriverVersionCall(call.outputDirectory,
                            [t |-> "path", v |-> result.value], out)

\* getBestDriverVersion(_browserVersion).
BestDriverVersion ==
    /\ pc = "idle"
    /\ \E browserVersion \in BrowserVersions, fetched \in FetchOutcomes :
          /\ call' = [method |-> "getBestDriverVersion",
                      browserVersion |-> browserVersion]
          /\ log' = <<Probe("fetchLatestGitHubTag", GitHubRepo, fetched)>>
          /\ Finish(BestDriverVersionResult(fetched))
    /\ UNCHANGED platform

\* install(driverVersion, outputDirectory).  `tag` is the fetched tag whose
\* getBestDriverVersion output is passed as driverVersion, or Null.
InstallCall(driverVersion, outputDirectory, tag, failure) ==
    /\ call' = [method |-> "install",
                driverVersion |-> driverVersion,
                outputDirectory |-> outputDirectory,
                tag |-> tag,
                platform |-> InstallPlatformTag(platform)]
    /\ IF InstallPlatformTag(platform) = NoPlatformTag
       THEN /\ log' = <<>>
            /\ Finish(Thrown(UnsupportedPlatform(platform)))
       ELSE LET args == InstallBinaryArgs(platform, driverVersion,
                                          outputDirectory)
                out == InstallBinary(platform, args, failure)
            IN  /\ log' = <<Probe("installBinary", args, out)>>
                /\ Finish(out)
    /\ UNCHANGED platform

Install ==
    /\ pc = "idle"
    /\ \E v \in DriverVersions, d \in OutputDirectories,
          f \in InstallFailures : InstallCall(v, d, Null, f)

\* install with the version getBestDriverVersion has just returned.
InstallBest ==
    /\ pc = "done"
    /\ call.method = "getBestDriverVersion"
    /\ result.kind = "return"
    /\ \E d \in OutputDirectories, f \in InstallFailures :
          InstallCall(result.value.v, d, StrV(log[1].out.value.v), f)

\* The caller takes the outcome; the installer keeps nothing between calls.
Return ==
    /\ pc = "done"
    /\ pc' = "idle"
    /\ call' = NoCall
    /\ log' = <<>>
    /\ result' = NoResult
    /\ UNCHANGED platform

Next ==
    \/ BrowserVersionMacFirst
    \/ BrowserVersionMacSecond
    \/ BrowserVersionLinuxSnap
    \/ BrowserVersionLinuxPath
    \/ BrowserVersionWinFirst
    \/ BrowserVersionWinLoop
    \/ BrowserVersionWinPath
    \/ BrowserVersionUnsupported
    \/ InstalledDriverVersion
    \/ InstalledDriverVersionAfterInstall
    \/ BestDriverVersion
    \/ Install
    \/ InstallBest
    \/ Return

Spec == Init /\ [][Next]_vars

----------------------------------------------------------------------------
(* Vocabulary of the properties *)

IsBrowserVersionCall == call.method = "getInstalledBrowserVersion"
IsDriverVersionCall == call.method = "getInstalledDriverVersion"
IsBestVersionCall == call.method = "getBestDriverVersion"
IsInstallCall == call.method = "install"

\* The platform tag the specification gives each supported host.
TagOfHost ==
    [os \in {"linux", "darwin", "win32"} |->
        CASE os = "linux" -> "linux64"
          [] os = "darwin" -> "mac64"
          [] os = "win32" -> "win64"]

ExeSuffix == IF platform = "win32" THEN ".exe" ELSE ""

ReleaseUrl(segment, tag) ==
    "https://github.com/operasoftware/operachromiumdriver/releases/download/"
        \o segment \o "/operadriver_" \o tag \o ".zip"

BeginsWith(s, prefix) ==
    Len(s) >= Len(prefix) /\ SubSeq(s, 1, Len(prefix)) = prefix

----------------------------------------------------------------------------
(* C1 *)

\* C1: on a host OS outside {darwin, linux, win32}, a call of
\* getInstalledBrowserVersion or of install ends by throwing the
\* unsupported-platform error, and no InstallerUtils call (subprocess probe,
\* tag or archive request, installBinary, hence no write) was made before.
C1_UnsupportedPlatformThrowsFirst ==
    (platform \notin {"darwin", "linux", "win32"}
        /\ (IsBrowserVersionCall \/ IsInstallCall))
    => /\ pc = "done"
       /\ result = Thrown("Unsupported platform: " \o platform)
       /\ log = <<>>

C1_Witness ==
    /\ platform = "freebsd"
    /\ IsInstallCall
    /\ pc = "done"
    /\ result.kind = "throw"

----------------------------------------------------------------------------
(* C2 *)

\* C2: on every supported host and for every driverVersion, install selects
\* the one platform tag of that host (linux64, mac64, win64), does not throw
\* the unsupported-platform error, and calls installBinary exactly once,
\* with isZip = true, returning its outcome.
C2_InstallSelectsTagAndDelegatesOnce ==
    (IsInstallCall /\ platform \in {"darwin", "linux", "win32"})
    => /\ pc = "done"
       /\ call.platform = TagOfHost[platform]
       /\ Cardinality({os \in DOMAIN TagOfHost :
                          TagOfHost[os] = call.platform}) = 1
       /\ result # Thrown("Unsupported platform: " \o platform)
       /\ Len(log) = 1
       /\ log[1].op = "installBinary"
       /\ log[1].arg.isZip = TRUE
       /\ result = log[1].out

C2_Witness ==
    /\ IsInstallCall
    /\ platform = "darwin"
    /\ call.platform = "mac64"
    /\ Len(log) = 1
    /\ result.kind = "return"

----------------------------------------------------------------------------
(* C3 *)

\* C3: on a supported host with tag T and for driverVersion V, installBinary
\* is given the URL ".../releases/download/v.<V>/operadriver_<T>.zip", the
\* entry "operadriver_<T>/operadriver" and the output name "operadriver",
\* both with ".exe" on Windows only; on Linux with V = 114.0.5735.90 these
\* are the URL and the entry of the end-to-end scenario.
C3_InstallBinaryArguments ==
    (IsInstallCall /\ platform \in {"darwin", "linux", "win32"})
    => LET args == log[1].arg
           T == TagOfHost[platform]
       IN  /\ args.archiveUrl =
                  ReleaseUrl("v." \o Str(call.driverVersion), T)
           /\ args.nameInArchive =
                  "operadriver_" \o T \o "/operadriver" \o ExeSuffix
           /\ args.outputName = "operadriver" \o ExeSuffix
           /\ args.outputDirectory = call.outputDirectory
           /\ (platform = "linux" /\ call.driverVersion = ExampleVersion)
              => /\ args.archiveUrl =
                        "https://github.com/operasoftware/operachromiumdriver/releases/download/v.114.0.5735.90/operadriver_linux64.zip"
                 /\ args.nameInArchive = "operadriver_linux64/operadriver"
                 /\ args.outputName = "operadriver"

C3_Witness ==
    /\ IsInstallCall
    /\ platform = "linux"
    /\ call.driverVersion = ExampleVersion
    /\ Len(log) = 1
    /\ log[1].arg.nameInArchive = "operadriver_linux64/operadriver"

----------------------------------------------------------------------------
(* C4 *)

FetchedTag == log[1].out.value.v

LeadsWithV(s) == BeginsWith(s, <<"v">>)

\* A tag whose "v" or "v." prefix is followed by another "v".
PrefixThenV(tag) ==
    BeginsWith(tag, <<"v", "v">>) \/ BeginsWith(tag, <<"v", ".", "v">>)

\* C4 as stated: for every tag the tag API returns, the output of
\* getBestDriverVersion has no leading "v" (hence no leading "v."), and the
\* three example tags normalize to 114.0.5735.90.
C4_OutputNeverLeadsWithV ==
    (IsBestVersionCall /\ result.kind = "return")
    => /\ ~LeadsWithV(result.value.v)
       /\ FetchedTag \in ExampleTags => result.value.v = ExampleVersion

\* C4, amended: the output has a leading "v" exactly when the tag's "v" or
\* "v." prefix is followed by another "v"; for every other tag the output
\* has no leading "v" or "v.", and the three example tags normalize to
\* 114.0.5735.90.
C4_OutputLeadsWithVOnlyAfterDoubledPrefix ==
    (IsBestVersionCall /\ result.kind = "return")
    => /\ LeadsWithV(result.value.v) <=> PrefixThenV(FetchedTag)
       /\ FetchedTag \in ExampleTags => result.value.v = ExampleVersion
       /\ Str(ExampleVersion) = "114.0.5735.90"

C4_Witness ==
    /\ IsBestVersionCall
    /\ result.kind = "return"
    /\ FetchedTag = <<"v", ".">> \o ExampleVersion
    /\ result.value.v = ExampleVersion

----------------------------------------------------------------------------
(* C5 *)

IsSpace(c) == c \in {" ", "\n", "\t", "\r"}

RECURSIVE WordLen(_)
\* Length of the longest whitespace-free prefix of s.
WordLen(s) == IF s = <<>> \/ IsSpace(Head(s)) THEN 0 ELSE 1 + WordLen(Tail(s))

RECURSIVE Tokens(_)
\* The whitespace-delimited tokens of s, in order.
Tokens(s) ==
    IF s = <<>> THEN <<>>
    ELSE IF IsSpace(Head(s)) THEN Tokens(Tail(s))
    ELSE <<SubSeq(s, 1, WordLen(s))>>
             \o Tokens(SubSeq(s, WordLen(s) + 1, Len(s)))

Absent(x) == x = Null \/ x = Undefined

\* C5: getInstalledDriverVersion returns the second whitespace-delimited
\* token of the --version output when the output has one, null when the
\* output is null or empty, and never anything that is neither a token of
\* the output nor absent.
C5_SecondTokenOrAbsent ==
    IsDriverVersionCall
    => LET out == log[1].out
           toks == IF Truthy(out) THEN Tokens(out.v) ELSE <<>>
       IN  /\ log[1].arg = <<DriverOutputPath(platform, call.outputDirectory),
                              "--version">>
           /\ result.kind = "return"
           /\ Len(toks) >= 2 => result.value = StrV(toks[2])
           /\ ~Truthy(out) => result.value = Null
           /\ \/ Absent(result.value)
              \/ \E i \in 1..Len(toks) : result.value = StrV(toks[i])

\* The part of C5 the code keeps: the example output, and every output whose
\* fields are separated by one space each, give the second token; null or
\* empty output gives null.
C5_SingleSpacedOutput ==
    IsDriverVersionCall
    => LET out == log[1].out
       IN  /\ out = StrV(ExampleDriverOutput)
              => result = Returned(StrV(ExampleVersion))
           /\ ~Truthy(out) => result = Returned(Null)

----------------------------------------------------------------------------
(* C6 *)

FirstTokenOrEmpty(out) ==
    IF Tokens(out.v) = <<>> THEN StrV(<<>>) ELSE StrV(Tokens(out.v)[1])

\* The order of the Linux probes: Snap first, PATH only after an absent Snap
\* answer, no error.
C6_ProbeOrder ==
    (IsBrowserVersionCall /\ platform = "linux")
    => /\ log[1].op = "getCommandOutputOrNullIfMissing"
       /\ log[1].arg = <<"/snap/bin/opera", "--version">>
       /\ Truthy(log[1].out) => (pc = "done" /\ Len(log) = 1)
       /\ (~Truthy(log[1].out) /\ pc = "done")
          => /\ Len(log) = 2
             /\ log[2].op = "getCommandOutputOrNullIfMissing"
             /\ log[2].arg = <<"opera", "--version">>
             /\ ~Truthy(log[2].out) => result = Returned(Null)
       /\ result.kind # "throw"

\* C6: on Linux getInstalledBrowserVersion runs /snap/bin/opera --version
\* first; a version from it is returned as its first whitespace-delimited
\* token and the PATH command is not run; an absent answer is followed by
\* opera --version, whose first token is returned; two absent answers give
\* absent, without an error.
C6_SnapThenPathFirstToken ==
    /\ C6_ProbeOrder
    /\ (IsBrowserVersionCall /\ platform = "linux" /\ pc = "done"
           /\ Truthy(log[Len(log)].out))
       => result = Returned(FirstTokenOrEmpty(log[Len(log)].out))

----------------------------------------------------------------------------
(* C7 *)

\* The candidates of macOS and Windows, in the order the claim gives.
Candidates ==
    IF platform = "darwin"
    THEN <<"Opera", "Opera Stable">>
    ELSE << "C:\\Program Files\\Opera\\opera.exe",
            "C:\\Program Files (x86)\\Opera\\opera.exe",
            "C:\\Users\\" \o call.username
                \o "\\AppData\\Local\\Programs\\Opera\\opera.exe",
            "opera.exe" >>

CandidateProbe ==
    IF platform = "darwin" THEN "getMacAppVersion" ELSE "getWindowsExeVersion"

\* C7: on macOS and Windows the candidates are probed in their fixed order,
\* the version of the first candidate that yields one is returned and no
\* later candidate is probed, and when every candidate yields absent the
\* result is absent and nothing is thrown.
C7_FirstCandidateWins ==
    (IsBrowserVersionCall /\ platform \in {"darwin", "win32"})
    => /\ Len(log) \in 1..Len(Candidates)
       /\ \A i \in 1..Len(log) :
             /\ log[i].op = CandidateProbe
             /\ log[i].arg = Candidates[i]
             /\ i < Len(log) => ~Truthy(log[i].out)
       /\ pc = "done"
          <=> (Truthy(log[Len(log)].out) \/ Len(log) = Len(Candidates))
       /\ pc = "done" => result = Returned(log[Len(log)].out)
       /\ (pc = "done" /\ \A i \in 1..Len(log) : log[i].out = Null)
          => result = Returned(Null)
       /\ result.kind # "throw"

C7_Witness ==
    /\ IsBrowserVersionCall
    /\ platform = "win32"
    /\ pc = "done"
    /\ Len(log) = 3
    /\ call.username = "bo"
    /\ result = Returned(StrV(ExampleVersion))

----------------------------------------------------------------------------
(* C8 *)

\* C8: getBestDriverVersion queries the tag API once, for
\* "operasoftware/operachromiumdriver", whatever browserVersion is; when the
\* query fails the call ends with that error, returns no version, and no
\* second query is made.
C8_OneQueryFailurePropagates ==
    IsBestVersionCall
    => /\ pc = "done"
       /\ Len(log) = 1
       /\ log[1].op = "fetchLatestGitHubTag"
       /\ log[1].arg = "operasoftware/operachromiumdriver"
       /\ log[1].out.kind = "throw"
          => (result.kind = "throw" /\ result = log[1].out)
       /\ log[1].out.kind = "return" => result.kind = "return"

C8_Witness ==
    /\ IsBestVersionCall
    /\ call.browserVersion = StrV(ExampleVersion)
    /\ log[1].out.kind = "throw"
    /\ result.kind = "throw"

----------------------------------------------------------------------------
(* C9 *)

\* C9: on every supported host and for every outputDirectory, the file
\* install asks installBinary to write, outputDirectory joined with
\* outputName, is the path getInstalledDriverVersion runs with --version;
\* after a successful install, getInstalledDriverVersion on the same
\* directory runs the file that install wrote.
C9_InstalledPathIsProbedPath ==
    /\ (IsInstallCall /\ Len(log) = 1)
       => /\ PathJoin(platform, log[1].arg.outputDirectory,
                      log[1].arg.outputName)
                = DriverOutputPath(platform, call.outputDirectory)
          /\ result.kind = "return"
             => result.value
                    = DriverOutputPath(platform, call.outputDirectory)
    /\ (IsDriverVersionCall /\ call.artifact # Null)
       => log[1].arg = <<call.artifact.v, "--version">>

C9_Witness ==
    /\ IsDriverVersionCall
    /\ platform = "win32"
    /\ call.outputDirectory = <<"/", "d">>
    /\ call.artifact # Null
    /\ call.artifact.v = "\\d\\operadriver.exe"
    /\ log[1].arg[1] = "\\d\\operadriver.exe"

----------------------------------------------------------------------------
(* C10 *)

\* The tag without its leading "v." or "v".
WithoutPrefix(tag) ==
    IF BeginsWith(tag, <<"v", ".">>) THEN SubSeq(tag, 3, Len(tag))
    ELSE IF BeginsWith(tag, <<"v">>) THEN SubSeq(tag, 2, Len(tag))
    ELSE tag

\* A version without prefix: digits and dots, starting with a digit.
IsBareVersion(s) ==
    /\ s # <<>>
    /\ s[1] \notin {"v", "."}
    /\ \A i \in 1..Len(s) : s[i] # "v"

\* C10: when install is given the output of getBestDriverVersion for the
\* fetched tag G, the release segment of the archive URL is "v." followed by
\* G without its leading "v" or "v."; the segment is G itself exactly when G
\* begins with "v.", so for a tag "v" + version or a bare version the URL
\* names a release other than the one fetched.
C10_ReleaseSegmentOfFetchedTag ==
    (IsInstallCall /\ call.tag # Null /\ Len(log) = 1)
    => LET G == call.tag.v
           url == log[1].arg.archiveUrl
       IN  /\ url = ReleaseUrl("v." \o Str(WithoutPrefix(G)), call.platform)
           /\ url = ReleaseUrl(Str(G), call.platform)
              <=> BeginsWith(G, <<"v", ".">>)
           /\ (IsBareVersion(G)
                 \/ (LeadsWithV(G) /\ IsBareVersion(Tail(G))))
              => url # ReleaseUrl(Str(G), call.platform)

C10_Witness ==
    /\ IsInstallCall
    /\ Len(log) = 1
    /\ call.tag = StrV(<<"v">> \o ExampleVersion)
    /\ log[1].arg.archiveUrl = ReleaseUrl("v.114.0.5735.90", "linux64")

====
